---- MODULE Spec2Model ----
(***************************************************************************)
(* Model of the parachute descent simulator: src/src/physics.py            *)
(* (PhysicsCalculator) and src/src/simulation.py (ParachuteSimulation).    *)
(*                                                                         *)
(* Numbers.  The program computes in binary floating point; the model      *)
(* computes in fixed point.  Lengths (m), velocities (m/s), times (s),     *)
(* accelerations, forces (N), masses (kg) and the dimensionless factors    *)
(* are integers counting hundredths (Scale = 100); the air density is      *)
(* counted in thousandths (kg/m^3) and the temperature ratio in ten-       *)
(* thousandths, so that the program's 0.001 density floor is not lost.     *)
(* Every product and quotient is rounded down to the unit of its result.   *)
(* The exponent 5.2561 of the density law is computed as the fifth power   *)
(* times the first-order expansion of the remaining power 0.2561.          *)
(***************************************************************************)
EXTENDS Integers, Sequences, FiniteSets, TLC

VARIABLES self, pc, results

vars == <<self, pc, results>>

----------------------------------------------------------------------------
(* Fixed-point arithmetic *)

Scale == 10 * 10

Mul(a, b) == (a * b) \div Scale

Div(a, b) == (a * Scale) \div b

Max(a, b) == IF a >= b THEN a ELSE b

RECURSIVE SeqMax(_)
SeqMax(s) ==
    IF Len(s) = 1 THEN s[1] ELSE Max(s[1], SeqMax(Tail(s)))

Last(s) == s[Len(s)]

----------------------------------------------------------------------------
(* src/src/physics.py : PhysicsCalculator *)

\* self.g = 9.81, in hundredths of m/s^2
g == 981

\* self.rho0 = 1.225, in thousandths of kg/m^3
rho0 == 1225

\* self.T0 = 288.15, in hundredths of K
T0 == 28815

\* self.L = 0.0065, in ten-thousandths of K/m
L == 65

\* the 0.001 density floor, in thousandths of kg/m^3
MinDensity == 1

\* np.pi, in hundredths
Pi == 314

\* the 0.1 s minimum inflation time, in hundredths of s
MinInflationTime == 10

RatioScale == 100 * 100

RhoScale == 10 * 100

\* x ** 5.2561 for x in ten-thousandths: x^5 times (1 - 0.2561 (1 - x))
Pow52561(x) ==
    LET x2 == (x * x) \div RatioScale
        x4 == (x2 * x2) \div RatioScale
        x5 == (x4 * x) \div RatioScale
        rest == RatioScale - (2561 * (RatioScale - x)) \div RatioScale
    IN  (x5 * rest) \div RatioScale

calculate_air_density(altitude) ==
    LET h == IF altitude < 0 THEN 0 ELSE altitude
        temperature_ratio == RatioScale - (L * h) \div T0
        density == (rho0 * Pow52561(temperature_ratio)) \div RatioScale
    IN  IF temperature_ratio <= 0 THEN MinDensity
        ELSE Max(density, MinDensity)

\* faulty variant: the inflation starts from no drag instead of the reefed drag
drag_force_inflating_from_zero(altitude, velocity, diameter, drag_coefficient, reefing_factor, time_since_deployment, inflation_time) ==
    IF velocity <= 0 THEN 0
    ELSE
      LET rho == calculate_air_density(altitude)
          radius == diameter \div 2
          area == Mul(Pi, Mul(radius, radius))
          base_drag ==
              Mul(Mul(((rho * Mul(velocity, velocity)) \div RhoScale) \div 2,
                      drag_coefficient), area)
      IN  IF time_since_deployment < inflation_time
          THEN Mul(base_drag, Div(time_since_deployment, inflation_time))
          ELSE base_drag

calculate_drag_force(altitude, velocity, diameter, drag_coefficient, reefing_factor, time_since_deployment, inflation_time) ==
    IF velocity <= 0 THEN 0
    ELSE
      LET rho == calculate_air_density(altitude)
          radius == diameter \div 2
          area == Mul(Pi, Mul(radius, radius))
          base_drag ==
              Mul(Mul(((rho * Mul(velocity, velocity)) \div RhoScale) \div 2,
                      drag_coefficient), area)
      IN  IF time_since_deployment < inflation_time
          THEN LET inflation_progress ==
                       Div(time_since_deployment, inflation_time)
                   effective_drag_coefficient ==
                       reefing_factor
                         + Mul(Scale - reefing_factor, inflation_progress)
               IN  Mul(base_drag, effective_drag_coefficient)
          ELSE base_drag

\* faulty variant: without the 0.1 s minimum
inflation_time_without_minimum(n_factor, diameter, velocity) ==
    IF velocity <= 0 THEN 0
    ELSE Div(Mul(n_factor, diameter), velocity)

calculate_inflation_time(n_factor, diameter, velocity) ==
    IF velocity <= 0 THEN 0
    ELSE Max(Div(Mul(n_factor, diameter), velocity), MinInflationTime)

\* np.cos(np.radians(deg)) and np.sin(np.radians(deg)), in hundredths, for the
\* descent angles of the configurations below (the float cos of 90 degrees,
\* 6.1e-17, is 0 hundredths)
Cos(deg) == CASE deg = 0 -> 100 [] deg = 60 -> 50 [] deg = 90 -> 0

Sin(deg) == CASE deg = 0 -> 0 [] deg = 60 -> 87 [] deg = 90 -> 100

----------------------------------------------------------------------------
(* src/src/simulation.py : ParachuteSimulation *)

\* the "10000 seconds max" of run(), in s
MaxSimulationTime == 10000

\* ParachuteSimulation.__init__
NewSimulation(global_params, phase_params, selected_phases) ==
    [ global_params          |-> global_params,
      phase_params           |-> phase_params,
      selected_phases        |-> selected_phases,
      time                   |-> << >>,
      altitude               |-> << >>,
      velocity               |-> << >>,
      total_drag_force       |-> << >>,
      phase_drag_forces      |->
          [phase \in {selected_phases[i] : i \in DOMAIN selected_phases}
              |-> << >>],
      horizontal_position    |-> << >>,
      current_time           |-> 0,
      current_altitude       |-> global_params.initial_altitude,
      current_velocity       |-> global_params.initial_velocity,
      current_horizontal_pos |-> 0,
      dt                     |-> global_params.time_step,
      descent_angle          |-> global_params.descent_angle,
      active_phases          |-> << >>,
      deployed_phases        |-> {},
      phase_deployment_times |-> << >>,
      phase_inflation_times  |-> << >> ]

_deploy_phase(s, phase) ==
    LET diameter == s.phase_params[phase].diameter
        n_factor == s.phase_params[phase].inflation_index
        inflation_time ==
            calculate_inflation_time(n_factor, diameter, s.current_velocity)
    IN  [s EXCEPT
           !.deployed_phases = @ \cup {phase},
           !.phase_deployment_times = (phase :> s.current_time) @@ @,
           !.phase_inflation_times = (phase :> inflation_time) @@ @,
           !.active_phases =
               Append(@, [ phase           |-> phase,
                           deployment_time |-> s.current_time,
                           inflation_time  |-> inflation_time,
                           params          |-> s.phase_params[phase] ])]

\* faulty variant: the loop body without the "phase not in self.deployed_phases" test
CheckPhaseAgain(s, phase) ==
    IF s.current_altitude <= s.phase_params[phase].deployment_altitude
    THEN _deploy_phase(s, phase)
    ELSE s

\* faulty variant: the altitude test is strict
CheckPhaseStrictlyBelow(s, phase) ==
    IF phase \notin s.deployed_phases
       /\ s.current_altitude < s.phase_params[phase].deployment_altitude
    THEN _deploy_phase(s, phase)
    ELSE s

\* the body of the loop of _check_phase_deployments, for one phase
CheckPhase(s, phase) ==
    IF phase \notin s.deployed_phases
       /\ s.current_altitude <= s.phase_params[phase].deployment_altitude
    THEN _deploy_phase(s, phase)
    ELSE s

RECURSIVE CheckPhasesFrom(_, _)
CheckPhasesFrom(s, i) ==
    IF i > Len(s.selected_phases) THEN s
    ELSE CheckPhasesFrom(CheckPhase(s, s.selected_phases[i]), i + 1)

\* faulty variant: the loop stops after the first phase it deploys
RECURSIVE CheckPhasesUntilDeployment(_, _)
CheckPhasesUntilDeployment(s, i) ==
    IF i > Len(s.selected_phases) THEN s
    ELSE LET after == CheckPhase(s, s.selected_phases[i])
         IN  IF after # s THEN after
             ELSE CheckPhasesUntilDeployment(s, i + 1)

check_first_phase_deployment(s) == CheckPhasesUntilDeployment(s, 1)

_check_phase_deployments(s) == CheckPhasesFrom(s, 1)

\* the drag of one entry of active_phases at the current state
PhaseDrag(s, phase_info) ==
    calculate_drag_force(
        s.current_altitude,
        s.current_velocity,
        phase_info.params.diameter,
        phase_info.params.drag_coefficient,
        phase_info.params.reefing_factor,
        s.current_time - phase_info.deployment_time,
        phase_info.inflation_time)

\* the second loop of _calculate_forces: acc = <<phase_drag_forces, total_drag>>
RECURSIVE ActiveDragFrom(_, _, _)
ActiveDragFrom(s, acc, i) ==
    IF i > Len(s.active_phases) THEN acc
    ELSE LET phase_info == s.active_phases[i]
             phase == phase_info.phase
             drag_force == PhaseDrag(s, phase_info)
         IN  ActiveDragFrom(
                 s,
                 << [acc[1] EXCEPT ![phase][Len(acc[1][phase])] = drag_force],
                    acc[2] + drag_force >>,
                 i + 1)

\* faulty variant: the drag is computed for every selected phase, deployed or not
RECURSIVE SelectedDragFrom(_, _, _)
SelectedDragFrom(s, acc, i) ==
    IF i > Len(s.selected_phases) THEN acc
    ELSE LET phase == s.selected_phases[i]
             drag_force ==
                 PhaseDrag(s, [ phase           |-> phase,
                                deployment_time |-> s.current_time,
                                inflation_time  |-> 0,
                                params          |-> s.phase_params[phase] ])
         IN  SelectedDragFrom(
                 s,
                 << [acc[1] EXCEPT ![phase][Len(acc[1][phase])] = drag_force],
                    acc[2] + drag_force >>,
                 i + 1)

calculate_forces_all_selected(s) ==
    LET reset == [phase \in DOMAIN s.phase_drag_forces
                     |-> Append(s.phase_drag_forces[phase], 0)]
        acc == SelectedDragFrom(s, <<reset, 0>>, 1)
    IN  [s EXCEPT !.phase_drag_forces = acc[1],
                  !.total_drag_force = Append(@, acc[2])]

\* faulty variant: only the phases deployed so far get a sample for the step
calculate_forces_deployed_only(s) ==
    LET reset == [phase \in DOMAIN s.phase_drag_forces
                     |-> IF phase \in s.deployed_phases
                         THEN Append(s.phase_drag_forces[phase], 0)
                         ELSE s.phase_drag_forces[phase]]
        acc == ActiveDragFrom(s, <<reset, 0>>, 1)
    IN  [s EXCEPT !.phase_drag_forces = acc[1],
                  !.total_drag_force = Append(@, acc[2])]

_calculate_forces(s) ==
    LET reset == [phase \in DOMAIN s.phase_drag_forces
                     |-> Append(s.phase_drag_forces[phase], 0)]
        acc == ActiveDragFrom(s, <<reset, 0>>, 1)
    IN  [s EXCEPT !.phase_drag_forces = acc[1],
                  !.total_drag_force = Append(@, acc[2])]

\* faulty variant: the mass of the most recently deployed phase
get_current_mass_latest(s) ==
    IF s.active_phases # << >>
    THEN Last(s.active_phases).params.payload_mass
    ELSE s.phase_params[s.selected_phases[1]].payload_mass

_get_current_mass(s) ==
    IF s.active_phases # << >>
    THEN s.active_phases[1].params.payload_mass
    ELSE s.phase_params[s.selected_phases[1]].payload_mass

\* faulty variant: the net acceleration has the wrong sign
update_dynamics_sign(s) ==
    LET current_drag ==
            IF s.total_drag_force # << >> THEN Last(s.total_drag_force) ELSE 0
        mass == _get_current_mass(s)
        gravity_component == Mul(g, Cos(s.descent_angle))
        drag_deceleration == Div(current_drag, mass)
        net_acceleration == drag_deceleration - gravity_component
        velocity == Max(0, s.current_velocity + Mul(net_acceleration, s.dt))
        altitude_change == Mul(velocity, s.dt)
        horizontal_velocity == Mul(velocity, Sin(s.descent_angle))
    IN  [s EXCEPT
           !.current_velocity = velocity,
           !.current_altitude = @ - altitude_change,
           !.current_horizontal_pos = @ + Mul(horizontal_velocity, s.dt)]

\* faulty variant: the velocity is not clamped to >= 0
update_dynamics_unclamped(s) ==
    LET current_drag ==
            IF s.total_drag_force # << >> THEN Last(s.total_drag_force) ELSE 0
        mass == _get_current_mass(s)
        gravity_component == Mul(g, Cos(s.descent_angle))
        drag_deceleration == Div(current_drag, mass)
        net_acceleration == gravity_component - drag_deceleration
        velocity == s.current_velocity + Mul(net_acceleration, s.dt)
        altitude_change == Mul(velocity, s.dt)
        horizontal_velocity == Mul(velocity, Sin(s.descent_angle))
    IN  [s EXCEPT
           !.current_velocity = velocity,
           !.current_altitude = @ - altitude_change,
           !.current_horizontal_pos = @ + Mul(horizontal_velocity, s.dt)]

\* "current_drag / mass" with mass = 0 and a drag that is a numpy float64:
\* the quotient is inf or nan (a RuntimeWarning, no exception).  The drag is
\* a float64 when it is the sum of at least one drag force computed from a
\* float64 velocity, which the velocity is after an update that left it > 0.
Float64DividedByZero(s) ==
    /\ _get_current_mass(s) = 0
    /\ s.time # << >>
    /\ s.active_phases # << >>
    /\ s.current_velocity > 0

\* "current_drag / mass" with mass = 0 and a drag that is a Python float
\* (0.0, or a sum of forces computed from the constructor's Python floats)
RaisesZeroDivisionError(s) ==
    /\ _get_current_mass(s) = 0
    /\ ~Float64DividedByZero(s)

\* with a float64 drag divided by a zero mass the net acceleration is -inf or
\* nan, and max(0, -inf) = max(0, nan) = 0
_update_dynamics(s) ==
    LET current_drag ==
            IF s.total_drag_force # << >> THEN Last(s.total_drag_force) ELSE 0
        mass == _get_current_mass(s)
        gravity_component == Mul(g, Cos(s.descent_angle))
        drag_deceleration == Div(current_drag, mass)
        net_acceleration == gravity_component - drag_deceleration
        velocity == IF Float64DividedByZero(s) THEN 0
                    ELSE Max(0, s.current_velocity + Mul(net_acceleration, s.dt))
        altitude_change == Mul(velocity, s.dt)
        horizontal_velocity == Mul(velocity, Sin(s.descent_angle))
    IN  [s EXCEPT
           !.current_velocity = velocity,
           !.current_altitude = @ - altitude_change,
           !.current_horizontal_pos = @ + Mul(horizontal_velocity, s.dt)]

_store_data(s) ==
    [s EXCEPT
       !.time = Append(@, s.current_time),
       !.altitude = Append(@, Max(0, s.current_altitude)),
       !.velocity = Append(@, s.current_velocity),
       !.horizontal_position = Append(@, s.current_horizontal_pos)]

\* "self.current_time += self.dt"
AdvanceTime(s) == [s EXCEPT !.current_time = @ + s.dt]

\* faulty variant: the sample is stored before the dynamics are updated
LoopBodyStoreFirst(s) ==
    AdvanceTime(
      _update_dynamics(
        _store_data(
          _calculate_forces(
            _check_phase_deployments(s)))))

\* faulty variant: the clock is advanced before the sample is stored
LoopBodyAdvanceFirst(s) ==
    _store_data(
      AdvanceTime(
        _update_dynamics(
          _calculate_forces(
            _check_phase_deployments(s)))))

\* one pass through the body of the while loop of run(), up to the safety check
LoopBody(s) ==
    AdvanceTime(
      _store_data(
        _update_dynamics(
          _calculate_forces(
            _check_phase_deployments(s)))))

\* the part of the loop body that precedes _update_dynamics
LoopBodyToForces(s) == _calculate_forces(_check_phase_deployments(s))

\* faulty variant: the limit is compared in the wrong unit
SafetyLimitExceededLate(s) == s.current_time > MaxSimulationTime * Scale * 10

\* "if self.current_time > 10000: break"
SafetyLimitExceeded(s) == s.current_time > MaxSimulationTime * Scale

\* f"{x:.1f}": x (hundredths) rounded to tenths, ties to even
FormatOneDecimal(x) ==
    LET q == x \div 10
        r == x % 10
    IN  IF r > 5 \/ (r = 5 /\ q % 2 = 1) THEN q + 1 ELSE q

\* dict.get(key, 0)
Get(d, key) == IF key \in DOMAIN d THEN d[key] ELSE 0

\* the per-phase table of _compile_results
PhaseResults(s) ==
    [i \in DOMAIN s.selected_phases |->
        LET phase == s.selected_phases[i]
            phase_drag_forces == s.phase_drag_forces[phase]
            max_drag == IF phase_drag_forces # << >>
                        THEN SeqMax(phase_drag_forces) ELSE 0
        IN  [ Phase |-> phase,
              MaxDragForce |-> FormatOneDecimal(max_drag),
              DeploymentTime |->
                  FormatOneDecimal(Get(s.phase_deployment_times, phase)),
              InflationTime |->
                  FormatOneDecimal(Get(s.phase_inflation_times, phase)) ]]

\* faulty variant: with no samples, the summary falls back on the current state
compile_results_current_state(s) ==
    [ max_total_drag_force |->
          IF s.total_drag_force # << >> THEN SeqMax(s.total_drag_force) ELSE 0,
      landing_velocity |->
          IF s.velocity # << >> THEN Last(s.velocity) ELSE s.current_velocity,
      total_flight_time |->
          IF s.time # << >> THEN Last(s.time) ELSE s.current_time,
      total_horizontal_range |->
          IF s.horizontal_position # << >> THEN Last(s.horizontal_position)
          ELSE s.current_horizontal_pos,
      final_altitude |->
          IF s.altitude # << >> THEN Last(s.altitude) ELSE s.current_altitude,
      phase_results |-> PhaseResults(s) ]

\* faulty variant: the last drag sample is reported as the maximum
compile_results_last_drag(s) ==
    [ max_total_drag_force |->
          IF s.total_drag_force # << >> THEN Last(s.total_drag_force) ELSE 0,
      landing_velocity |->
          IF s.velocity # << >> THEN Last(s.velocity) ELSE 0,
      total_flight_time |->
          IF s.time # << >> THEN Last(s.time) ELSE 0,
      total_horizontal_range |->
          IF s.horizontal_position # << >> THEN Last(s.horizontal_position)
          ELSE 0,
      final_altitude |->
          IF s.altitude # << >> THEN Last(s.altitude) ELSE 0,
      phase_results |-> PhaseResults(s) ]

_compile_results(s) ==
    [ max_total_drag_force |->
          IF s.total_drag_force # << >> THEN SeqMax(s.total_drag_force) ELSE 0,
      landing_velocity |->
          IF s.velocity # << >> THEN Last(s.velocity) ELSE 0,
      total_flight_time |->
          IF s.time # << >> THEN Last(s.time) ELSE 0,
      total_horizontal_range |->
          IF s.horizontal_position # << >> THEN Last(s.horizontal_position)
          ELSE 0,
      final_altitude |->
          IF s.altitude # << >> THEN Last(s.altitude) ELSE 0,
      phase_results |-> PhaseResults(s) ]

----------------------------------------------------------------------------
(* Configurations: the arguments of ParachuteSimulation(...) *)

\* initial altitudes 0, 20 m, ..., MaxAltitudeSteps * 20 m
MaxAltitudeSteps == 2

\* deployment altitudes 0, 10 m, ..., MaxDeploySteps * 10 m
MaxDeploySteps == 3

\* initial velocities 0, 20 m/s, ..., MaxVelocitySteps * 20 m/s
MaxVelocitySteps == 1

InitialAltitudes == {k * 20 * Scale : k \in 0..MaxAltitudeSteps}

DeploymentAltitudes == {k * 10 * Scale : k \in 0..MaxDeploySteps}

InitialVelocities == {k * 20 * Scale : k \in 0..MaxVelocitySteps}

\* 0.5 s and 1 s
TimeSteps == {Scale \div 2, Scale}

\* 2500 s and 4000 s: the constructor and run() put no upper limit on the step
LongTimeSteps == {2500 * Scale, 4000 * Scale}

PhaseParamChoices(phase) ==
    IF phase = "Drogue"
    THEN [ diameter            : {1 * Scale},
           drag_coefficient    : {1, 120},
           deployment_altitude : DeploymentAltitudes,
           inflation_index     : {2 * Scale},
           payload_mass        : {10 * Scale},
           reefing_factor      : {30, Scale} ]
    ELSE [ diameter            : {3 * Scale},
           drag_coefficient    : {150},
           deployment_altitude : DeploymentAltitudes,
           inflation_index     : {5 * Scale},
           payload_mass        : {12 * Scale},
           reefing_factor      : {0, 30} ]

SelectedPhaseLists ==
    { <<"Main">>, <<"Drogue">>, <<"Drogue", "Main">>, <<"Main", "Drogue">> }

PhasesOf(selected_phases) ==
    {selected_phases[i] : i \in DOMAIN selected_phases}

\* the phase_params dictionaries for a phase list
PhaseParamsFor(selected_phases) ==
    { pp \in [PhasesOf(selected_phases) ->
                 UNION {PhaseParamChoices(ph) : ph \in PhasesOf(selected_phases)}] :
        \A ph \in PhasesOf(selected_phases) : pp[ph] \in PhaseParamChoices(ph) }

GlobalParamsChoices(altitudes, velocities, steps, angles) ==
    [ initial_altitude : altitudes,
      initial_velocity : velocities,
      time_step        : steps,
      descent_angle    : angles ]

\* descents along a path inclined by 0 or 60 degrees, with steps of at most 1 s
DescentConfigurations ==
    UNION { { [ global_params   |-> gp,
                phase_params    |-> pp,
                selected_phases |-> sel ] :
                gp \in GlobalParamsChoices(InitialAltitudes, InitialVelocities,
                                           TimeSteps, {0, 60}),
                pp \in PhaseParamsFor(sel) } :
            sel \in SelectedPhaseLists }

\* horizontal flight paths (90 degrees: no gravity component along the path)
\* at 0 or 0.01 m/s with long steps: the runs that reach the safety limit
LongRunConfigurations ==
    UNION { { [ global_params   |-> gp,
                phase_params    |-> pp,
                selected_phases |-> sel ] :
                gp \in GlobalParamsChoices(InitialAltitudes \cup {100 * Scale, 150 * Scale},
                                           {0, 1}, LongTimeSteps, {90}),
                pp \in { q \in PhaseParamsFor(sel) :
                           \A ph \in DOMAIN q :
                               /\ q[ph].reefing_factor = 30
                               /\ q[ph].drag_coefficient >= 120 } } :
            sel \in SelectedPhaseLists }

\* phase_params with the payload mass of the phases in zero set to 0
WithZeroMass(phase_params, zero) ==
    [ph \in DOMAIN phase_params |->
        IF ph \in zero THEN [phase_params[ph] EXCEPT !.payload_mass = 0]
        ELSE phase_params[ph]]

\* vertical descents in which at least one phase has payload mass 0: the
\* constructor takes any value
ZeroMassConfigurations ==
    UNION { { [ global_params   |-> gp,
                phase_params    |-> WithZeroMass(pp, zero),
                selected_phases |-> sel ] :
                gp \in GlobalParamsChoices(InitialAltitudes, InitialVelocities,
                                           TimeSteps, {0}),
                pp \in PhaseParamsFor(sel),
                zero \in (SUBSET PhasesOf(sel)) \ {{}} } :
            sel \in SelectedPhaseLists }

Configurations == DescentConfigurations \cup LongRunConfigurations

----------------------------------------------------------------------------
(* ParachuteSimulation.run() as a state machine *)

Init ==
    /\ \E cfg \in Configurations :
          self = NewSimulation(cfg.global_params, cfg.phase_params,
                               cfg.selected_phases)
    /\ pc = "loop"
    /\ results = << >>

\* at the loop test, "while self.current_altitude > 0" holds
LoopContinues == pc = "loop" /\ self.current_altitude > 0

\* the loop is left: by the break, or by the loop test failing
LoopEnds == pc = "break" \/ (pc = "loop" /\ self.current_altitude <= 0)

\* one iteration of "while self.current_altitude > 0", safety check included;
\* a ZeroDivisionError leaves run() from inside _update_dynamics, after the
\* deployments and the forces of the iteration have been recorded
Iterate ==
    /\ LoopContinues
    /\ IF RaisesZeroDivisionError(LoopBodyToForces(self))
       THEN /\ self' = LoopBodyToForces(self)
            /\ pc' = "raised"
       ELSE /\ self' = LoopBody(self)
            /\ pc' = IF SafetyLimitExceeded(self') THEN "break" ELSE "loop"
    /\ UNCHANGED results

\* the loop has ended: "return self._compile_results()"
Return ==
    /\ LoopEnds
    /\ results' = _compile_results(self)
    /\ pc' = "done"
    /\ UNCHANGED self

Next == Iterate \/ Return

Spec == Init /\ [][Next]_vars

\* run() on a simulation constructed with a zero payload mass
InitZeroMass ==
    /\ \E cfg \in ZeroMassConfigurations :
          self = NewSimulation(cfg.global_params, cfg.phase_params,
                               cfg.selected_phases)
    /\ pc = "loop"
    /\ results = << >>

ZeroMassSpec == InitZeroMass /\ [][Next]_vars

----------------------------------------------------------------------------
(* PhysicsEngine.calculate_drag_force applied over the time since deployment *)

\* the number of times the function is applied to one choice of arguments
MaxSweepSteps == 10

\* 0.05 s between two applications
SweepStep == Scale \div 20

\* the arguments of calculate_drag_force: altitudes of 0, 1000 and 5000 m,
\* velocities of 5, 20 and 60 m/s, an inflation time of 0 (deployed at rest)
\* or of at least the 0.1 s minimum
DragForceArguments ==
    [ altitude              : {0, 1000 * Scale, 5000 * Scale},
      velocity              : {5 * Scale, 20 * Scale, 60 * Scale},
      diameter              : {1 * Scale, 3 * Scale},
      drag_coefficient      : {1, 150},
      reefing_factor        : {0, 30, Scale},
      time_since_deployment : {0},
      inflation_time        : {0, MinInflationTime, 25, 40} ]

\* self holds the arguments of the next application, results the values
\* returned so far
InitDragForce ==
    /\ self \in DragForceArguments
    /\ pc = "drag"
    /\ results = << >>

\* apply the function, then move on in time
EvaluateDragForce ==
    /\ pc = "drag"
    /\ Len(results) < MaxSweepSteps
    /\ results' = Append(results,
                         calculate_drag_force(
                             self.altitude, self.velocity, self.diameter,
                             self.drag_coefficient, self.reefing_factor,
                             self.time_since_deployment, self.inflation_time))
    /\ self' = [self EXCEPT !.time_since_deployment = @ + SweepStep]
    /\ UNCHANGED pc

DragForceSpec == InitDragForce /\ [][EvaluateDragForce]_vars

----------------------------------------------------------------------------
(* src/utils/input_handler.py : InputHandler.validate_inputs *)

\* a widget value is None (nothing entered) or a number: << >> or <<x>>
None == << >>

Number(x) == <<x>>

\* "if value is None or value <= 0" of the loop over global_params
GlobalValueRejected(value) == value = None \/ value[1] <= 0

\* the two tests of the loop over a phase's parameters
PhaseValueRejected(param, value) ==
    \/ value = None
    \/ value[1] < 0
    \/ (param = "reefing_factor" /\ (value[1] < 0 \/ value[1] > Scale))

phase_order == <<"ACS", "Drogue", "Pilot", "Main">>

\* the phases after "deployment_altitudes.sort(key=..., reverse=True)": by
\* descending deployment altitude, equal altitudes keeping their list order
SortedPhases(phase_params, selected_phases) ==
    LET alt(i) == phase_params[selected_phases[i]].deployment_altitude[1]
        Rank(i) ==
            1 + Cardinality({j \in DOMAIN selected_phases :
                                \/ alt(j) > alt(i)
                                \/ (alt(j) = alt(i) /\ j < i)})
    IN  [k \in DOMAIN selected_phases |->
            selected_phases[CHOOSE i \in DOMAIN selected_phases : Rank(i) = k]]

\* "[p for p in phase_order if p in selected_phases]"
ExpectedOrder(selected_phases) ==
    LET Selected(p) == p \in PhasesOf(selected_phases)
    IN  SelectSeq(phase_order, Selected)

\* the first two loops of validate_inputs reach a "return False"
ValueCheckFails(global_params, phase_params, selected_phases) ==
    \/ \E param \in DOMAIN global_params :
          GlobalValueRejected(global_params[param])
    \/ \E i \in DOMAIN selected_phases :
          \/ selected_phases[i] \notin DOMAIN phase_params
          \/ \E param \in DOMAIN phase_params[selected_phases[i]] :
                PhaseValueRejected(param, phase_params[selected_phases[i]][param])

\* faulty variant: an unusual order of the deployment altitudes is rejected
validate_inputs_typical_order_only(global_params, phase_params, selected_phases) ==
    IF ValueCheckFails(global_params, phase_params, selected_phases)
    THEN [valid |-> FALSE, warning |-> FALSE]
    ELSE LET unusual ==
                 /\ Len(selected_phases) > 1
                 /\ SortedPhases(phase_params, selected_phases)
                      # ExpectedOrder(selected_phases)
         IN  [valid |-> ~unusual, warning |-> unusual]

\* the value returned, and whether st.warning was called
validate_inputs(global_params, phase_params, selected_phases) ==
    IF ValueCheckFails(global_params, phase_params, selected_phases)
    THEN [valid |-> FALSE, warning |-> FALSE]
    ELSE [valid   |-> TRUE,
          warning |-> /\ Len(selected_phases) > 1
                      /\ SortedPhases(phase_params, selected_phases)
                           # ExpectedOrder(selected_phases)]

\* what the widgets of app.py and get_phase_inputs can hand over, and what a
\* caller of validate_inputs can pass besides: a value is missing, negative,
\* zero, or beyond the range of its widget
BaseGlobalInput ==
    [ initial_altitude |-> Number(20 * Scale),
      initial_velocity |-> Number(20 * Scale),
      time_step        |-> Number(Scale \div 2),
      descent_angle    |-> Number(60) ]

OtherValues == {None, Number(0 - Scale), Number(0), Number(2 * Scale)}

GlobalInputs ==
    [ initial_altitude : {Number(20 * Scale)},
      initial_velocity : {Number(0), Number(20 * Scale)},
      time_step        : {Number(Scale \div 2), Number(Scale)},
      descent_angle    : {Number(0), Number(60), Number(90)} ]
    \cup { [BaseGlobalInput EXCEPT ![param] = value] :
             param \in DOMAIN BaseGlobalInput, value \in OtherValues }

BasePhaseInput ==
    [ diameter            |-> Number(1 * Scale),
      drag_coefficient    |-> Number(120),
      deployment_altitude |-> Number(10 * Scale),
      inflation_index     |-> Number(2 * Scale),
      payload_mass        |-> Number(10 * Scale),
      reefing_factor      |-> Number(30) ]

PhaseInputs ==
    { [BasePhaseInput EXCEPT !.deployment_altitude = Number(altitude),
                             !.reefing_factor = Number(reefing)] :
        altitude \in DeploymentAltitudes, reefing \in {0, 30, Scale} }
    \cup { [BasePhaseInput EXCEPT ![param] = value] :
             param \in DOMAIN BasePhaseInput, value \in OtherValues }

\* every phase with the base values but its own deployment altitude
AltitudeInputs(phases) ==
    { [ph \in phases |->
          [BasePhaseInput EXCEPT !.deployment_altitude = Number(altitudes[ph])]] :
        altitudes \in [phases -> DeploymentAltitudes] }

\* one phase with every choice of the global values; two phases with every
\* pair of choices of their values; three phases with every assignment of
\* deployment altitudes; a selected phase without parameters
ValidationInputs ==
    UNION { { [ global_params   |-> gp,
                phase_params    |-> pp,
                selected_phases |-> sel ] :
                gp \in IF Len(sel) = 1 THEN GlobalInputs ELSE {BaseGlobalInput},
                pp \in [PhasesOf(sel) -> PhaseInputs] } :
            sel \in SelectedPhaseLists }
    \cup
    UNION { { [ global_params   |-> BaseGlobalInput,
                phase_params    |-> pp,
                selected_phases |-> sel ] :
                pp \in AltitudeInputs(PhasesOf(sel)) } :
            sel \in { <<"ACS", "Drogue", "Main">>, <<"Main", "ACS", "Drogue">>,
                      <<"Drogue", "Pilot", "ACS">> } }
    \cup
    { [ global_params   |-> BaseGlobalInput,
        phase_params    |-> [ph \in {"Drogue"} |-> BasePhaseInput],
        selected_phases |-> <<"Drogue", "Main">> ] }

\* self holds the arguments of the call, results what it returned
InitValidation ==
    /\ self \in ValidationInputs
    /\ pc = "validate"
    /\ results = << >>

\* "all_inputs_valid = input_handler.validate_inputs(...)"
Validate ==
    /\ pc = "validate"
    /\ results' = validate_inputs(self.global_params, self.phase_params,
                                  self.selected_phases)
    /\ pc' = "validated"
    /\ UNCHANGED self

ValidationSpec == InitValidation /\ [][Validate]_vars

----------------------------------------------------------------------------
(* Vocabulary of the properties *)

\* the number of loop iterations executed so far (samples stored)
Samples == Len(self.time)

Phases == PhasesOf(self.selected_phases)

DeploymentAltitude(p) == self.phase_params[p].deployment_altitude

\* the number of entries of active_phases made for phase p
ActiveEntries(p) ==
    Cardinality({i \in DOMAIN self.active_phases : self.active_phases[i].phase = p})

\* the altitude the i-th iteration started from (what its deployment check saw)
StartAltitude(i) ==
    IF i = 1 THEN self.global_params.initial_altitude ELSE self.altitude[i - 1]

\* the iterations whose starting altitude had reached p's deployment altitude
CrossedSteps(p) ==
    {i \in 1..Samples : StartAltitude(i) <= DeploymentAltitude(p)}

Least(S) == CHOOSE x \in S : \A y \in S : x <= y

\* the samples at which p's drag is nonzero
NonzeroSamples(p) == {i \in 1..Samples : self.phase_drag_forces[p][i] # 0}

Returned == pc = "done"

\* how the loop of run() ended
EndedByGroundContact == Returned /\ self.current_altitude <= 0

EndedByCeilingAloft ==
    Returned /\ SafetyLimitExceeded(self) /\ self.current_altitude > 0

----------------------------------------------------------------------------
(* C1: a phase is deployed at most once.  Once a phase is in deployed_phases  *)
(* it stays there, it has exactly one entry in active_phases, and no later    *)
(* step changes its recorded deployment time, its inflation duration or its   *)
(* entry.                                                                     *)
C1_DeployedOnceForGood ==
    [][ \A p \in Phases :
          /\ ActiveEntries(p)' = IF p \in self'.deployed_phases THEN 1 ELSE 0
          /\ p \in self.deployed_phases =>
               /\ p \in self'.deployed_phases
               /\ self'.phase_deployment_times[p] = self.phase_deployment_times[p]
               /\ self'.phase_inflation_times[p] = self.phase_inflation_times[p]
               /\ \E i \in DOMAIN self.active_phases :
                     /\ self.active_phases[i].phase = p
                     /\ self'.active_phases[i] = self.active_phases[i] ]_vars

\* two phases deployed in different steps, and steps taken after both
C1_Witness ==
    \E p, q \in self.deployed_phases :
        /\ self.phase_deployment_times[p] < self.phase_deployment_times[q]
        /\ self.phase_deployment_times[q] + self.dt < self.current_time

(* C2: a phase contributes exactly 0 drag to every sample taken before it is *)
(* deployed, and to every sample if it never deploys.                        *)
C2_ZeroDragBeforeDeployment ==
    \A p \in Phases : \A i \in 1..Samples :
        (p \notin self.deployed_phases
           \/ self.time[i] < self.phase_deployment_times[p])
        => self.phase_drag_forces[p][i] = 0

\* a run that returned with one phase deployed after the first step and pulling,
\* and another phase never deployed, while the payload was moving throughout
C2_Witness ==
    /\ Returned
    /\ \E p \in self.deployed_phases :
          /\ self.phase_deployment_times[p] > 0
          /\ NonzeroSamples(p) # {}
    /\ \E q \in Phases : q \notin self.deployed_phases
    /\ \A i \in 1..Samples : self.velocity[i] > 0

(* C3: the stored altitude never increases from one sample to the next. *)
C3_AltitudeNonIncreasing ==
    \A i \in 1..(Samples - 1) : self.altitude[i + 1] <= self.altitude[i]

\* the velocity was driven to 0 by the drag in one step, and the descent went on
C3_Witness ==
    /\ Samples >= 3
    /\ \E i \in 2..(Samples - 1) :
          /\ self.velocity[i] = 0
          /\ self.velocity[i - 1] > 0
          /\ self.altitude[i] = self.altitude[i - 1]
          /\ self.altitude[i + 1] < self.altitude[i]

(* C4, as claimed: when the run ends by ground contact, every phase with   *)
(* deployment altitude >= 0 has been deployed exactly once, in the first    *)
(* step whose starting altitude had reached its deployment altitude.        *)
(* (Stated for the runs that execute at least one step, of at most 1 s.)    *)
C4_AsClaimed ==
    (EndedByGroundContact /\ Samples >= 1 /\ self.dt <= Scale) =>
        \A p \in Phases :
            DeploymentAltitude(p) >= 0 =>
                /\ p \in self.deployed_phases
                /\ ActiveEntries(p) = 1
                /\ CrossedSteps(p) # {}
                /\ self.phase_deployment_times[p]
                     = self.time[Least(CrossedSteps(p))]

(* C4, amended: a phase is deployed exactly when some executed step started *)
(* at an altitude <= its deployment altitude; it is then deployed exactly   *)
(* once, in the first such step.  A phase whose deployment altitude lies    *)
(* below the starting altitude of every executed step (deployment altitude  *)
(* 0, or a threshold first passed by the last step's update) is never       *)
(* deployed.                                                                *)
C4_DeployedAtFirstCrossedStep ==
    \A p \in Phases :
        /\ p \in self.deployed_phases <=> CrossedSteps(p) # {}
        /\ p \in self.deployed_phases =>
             /\ ActiveEntries(p) = 1
             /\ self.phase_deployment_times[p]
                  = self.time[Least(CrossedSteps(p))]
        /\ p \notin self.deployed_phases => ActiveEntries(p) = 0

\* a landed run with one phase deployed in a step after the first, the first
\* that started below its deployment altitude, and another phase with a
\* positive deployment altitude that the last step passed undeployed
C4_Witness ==
    /\ EndedByGroundContact
    /\ \E p \in self.deployed_phases :
          /\ self.phase_deployment_times[p] > 0
          /\ StartAltitude(Least(CrossedSteps(p))) < DeploymentAltitude(p)
    /\ \E q \in Phases :
          /\ q \notin self.deployed_phases
          /\ DeploymentAltitude(q) > 0

\* a step that started exactly at a phase's deployment altitude deployed it
C4_WitnessAtThreshold ==
    \E p \in self.deployed_phases :
        StartAltitude(Least(CrossedSteps(p))) = DeploymentAltitude(p)

(* C5, as claimed: of two phases with different deployment altitudes, both  *)
(* below the initial altitude, the one with the higher deployment altitude  *)
(* shows its first nonzero drag at a strictly smaller sample index.         *)
C5_AsClaimed ==
    \A p, q \in Phases :
        ( /\ DeploymentAltitude(p) > DeploymentAltitude(q)
          /\ DeploymentAltitude(p) < self.global_params.initial_altitude
          /\ NonzeroSamples(q) # {} )
        => /\ NonzeroSamples(p) # {}
           /\ Least(NonzeroSamples(p)) < Least(NonzeroSamples(q))

(* C5, amended: of two phases with different deployment altitudes, the one  *)
(* with the higher deployment altitude is deployed no later than the other, *)
(* whatever their positions in the phase list, and the other's drag is 0 at *)
(* every sample before that deployment.  The first nonzero samples need not *)
(* be strictly ordered: both phases deploy in the same step when one step   *)
(* passes both thresholds.                                                  *)
C5_HigherPhaseDeploysNoLater ==
    \A p, q \in Phases :
        DeploymentAltitude(p) > DeploymentAltitude(q) =>
            /\ q \in self.deployed_phases =>
                 /\ p \in self.deployed_phases
                 /\ self.phase_deployment_times[p]
                      <= self.phase_deployment_times[q]
            /\ \A i \in NonzeroSamples(q) :
                 /\ p \in self.deployed_phases
                 /\ self.phase_deployment_times[p] <= self.time[i]

\* the lower phase comes first in the list, one step passed both thresholds
\* (both below the initial altitude), and both phases pulled from that step on
C5_Witness ==
    /\ Len(self.selected_phases) = 2
    /\ LET q == self.selected_phases[1]
           p == self.selected_phases[2]
       IN  /\ DeploymentAltitude(p) > DeploymentAltitude(q)
           /\ DeploymentAltitude(p) < self.global_params.initial_altitude
           /\ NonzeroSamples(p) # {}
           /\ NonzeroSamples(q) # {}
           /\ Least(NonzeroSamples(p)) = Least(NonzeroSamples(q))

\* the lower phase comes first in the list and the higher phase deployed in an
\* earlier step
C5_WitnessEarlier ==
    /\ Len(self.selected_phases) = 2
    /\ LET q == self.selected_phases[1]
           p == self.selected_phases[2]
       IN  /\ DeploymentAltitude(p) > DeploymentAltitude(q)
           /\ q \in self.deployed_phases
           /\ self.phase_deployment_times[p] < self.phase_deployment_times[q]

(* C6: run() terminates.  The loop is left as soon as the altitude is <= 0  *)
(* or the time exceeds 10,000 s: the body has been executed at most         *)
(* floor(10000/dt) + 1 times, every iteration but the last one left the     *)
(* altitude > 0 and the time <= 10,000 s, no iteration can start once the   *)
(* time has exceeded 10,000 s, and run() is never stuck before it returns.  *)
C6_Terminates ==
    /\ Samples <= (MaxSimulationTime * Scale) \div self.dt + 1
    /\ \A i \in 1..(Samples - 1) :
          /\ self.altitude[i] > 0
          /\ self.time[i] + self.dt <= MaxSimulationTime * Scale
    /\ SafetyLimitExceeded(self) => ~LoopContinues
    /\ ~Returned => LoopContinues \/ LoopEnds

\* a run stopped by the limit after exactly floor(10000/dt) + 1 iterations, the
\* last of which started at exactly 10,000 s
C6_Witness ==
    /\ EndedByCeilingAloft
    /\ Samples = (MaxSimulationTime * Scale) \div self.dt + 1
    /\ Last(self.time) = MaxSimulationTime * Scale

C7_WitnessLandedAtLimit ==
    EndedByGroundContact /\ SafetyLimitExceeded(self)

\* the mass _update_dynamics used in the i-th iteration
MassAt(i) ==
    IF self.active_phases # << >>
       /\ self.active_phases[1].deployment_time <= self.time[i]
    THEN self.active_phases[1].params.payload_mass
    ELSE self.phase_params[self.selected_phases[1]].payload_mass

\* g cos(descent angle) mass, the gravity force along the path in iteration i
GravityForceAt(i) == Mul(Mul(g, Cos(self.descent_angle)), MassAt(i))

DragNeverExceedsGravity ==
    \A i \in 1..Samples : self.total_drag_force[i] <= GravityForceAt(i)

(* C8, as claimed: from an initial altitude > 0, a run in which the total    *)
(* drag never exceeds the gravity force along the path ends through the      *)
(* 10,000 s limit and not through altitude <= 0.  (Stated for steps of at    *)
(* most 1 s.)                                                                *)
C8_AsClaimed ==
    ( /\ Returned
      /\ self.global_params.initial_altitude > 0
      /\ self.dt <= Scale
      /\ DragNeverExceedsGravity )
    => EndedByCeilingAloft

(* C8, amended: in such a run the velocity never decreases from one step to  *)
(* the next, and the loop ends through the 10,000 s limit only if the        *)
(* initial altitude exceeds the distance covered at the initial velocity in  *)
(* the steps executed (more than 10,000 s of them); otherwise it ends        *)
(* through altitude <= 0.                                                    *)
C8_LowDragRunLandsUnlessTooSlow ==
    ( /\ Returned
      /\ self.global_params.initial_altitude > 0
      /\ DragNeverExceedsGravity )
    => /\ \A i \in 1..Samples :
             self.velocity[i] >= IF i = 1 THEN self.global_params.initial_velocity
                                 ELSE self.velocity[i - 1]
       /\ EndedByCeilingAloft =>
             /\ Samples * self.dt > MaxSimulationTime * Scale
             /\ self.global_params.initial_altitude
                  > Samples * Mul(self.global_params.initial_velocity, self.dt)
       /\ self.global_params.initial_altitude
             <= Samples * Mul(self.global_params.initial_velocity, self.dt)
          => EndedByGroundContact

\* a descent with steps of at most 1 s under a phase that pulls, but never
\* harder than gravity, which reached the ground
C8_Witness ==
    /\ EndedByGroundContact
    /\ self.global_params.initial_altitude > 0
    /\ self.dt <= Scale
    /\ DragNeverExceedsGravity
    /\ \E i \in 1..Samples : self.total_drag_force[i] > 0

\* a run without drag stopped by the limit: no gravity along the path, no speed
C8_WitnessCeiling ==
    /\ EndedByCeilingAloft
    /\ DragNeverExceedsGravity
    /\ self.deployed_phases # {}

(* C9, as claimed: started at altitude 0, the run has at most one sample,   *)
(* reports the initial velocity as landing_velocity and 0 as                *)
(* total_flight_time.                                                       *)
C9_AsClaimed ==
    (Returned /\ self.global_params.initial_altitude = 0) =>
        /\ Samples <= 1
        /\ results.landing_velocity = self.global_params.initial_velocity
        /\ results.total_flight_time = 0

(* C9, amended: started at altitude 0, the run has no sample at all and     *)
(* reports landing_velocity = 0, whatever the initial velocity, and         *)
(* total_flight_time = 0.                                                   *)
C9_DegenerateRunReportsZero ==
    (Returned /\ self.global_params.initial_altitude = 0) =>
        /\ Samples = 0
        /\ results.landing_velocity = 0
        /\ results.total_flight_time = 0

\* a run started on the ground with a positive initial velocity has returned
C9_Witness ==
    /\ Returned
    /\ self.global_params.initial_altitude = 0
    /\ self.global_params.initial_velocity > 0

(* C10: the summary is a reduction of the stored series: the maximum of the *)
(* total-drag series and the last samples of the velocity, time,            *)
(* horizontal-position and altitude series; all five are 0 when the series  *)
(* are empty.                                                               *)
C10_SummaryReducesSeries ==
    Returned =>
        IF Samples = 0
        THEN /\ self.total_drag_force = << >>
             /\ results.max_total_drag_force = 0
             /\ results.landing_velocity = 0
             /\ results.total_flight_time = 0
             /\ results.total_horizontal_range = 0
             /\ results.final_altitude = 0
        ELSE /\ \E i \in 1..Samples :
                   self.total_drag_force[i] = results.max_total_drag_force
             /\ \A i \in 1..Samples :
                   self.total_drag_force[i] <= results.max_total_drag_force
             /\ results.landing_velocity = self.velocity[Samples]
             /\ results.total_flight_time = self.time[Samples]
             /\ results.total_horizontal_range
                  = self.horizontal_position[Samples]
             /\ results.final_altitude = self.altitude[Samples]

\* a run whose largest total drag is not its last, along an inclined path
C10_Witness ==
    /\ Returned
    /\ Samples >= 3
    /\ results.max_total_drag_force > self.total_drag_force[Samples]
    /\ self.total_drag_force[Samples] > 0
    /\ results.total_horizontal_range > 0

----------------------------------------------------------------------------
\* the number of loop iterations executed so far, read off the simulation
\* clock, which advances by dt once per iteration
Iterations == self.current_time \div self.dt

(* C11: after every completed iteration and at return, the time, altitude,   *)
(* velocity, total-drag and horizontal-position series and the drag series   *)
(* of every configured phase, deployed or not, have the same length, which   *)
(* is the number of iterations executed.                                     *)
C11_SeriesAligned ==
    /\ self.current_time = Iterations * self.dt
    /\ Len(self.time) = Iterations
    /\ Len(self.altitude) = Iterations
    /\ Len(self.velocity) = Iterations
    /\ Len(self.total_drag_force) = Iterations
    /\ Len(self.horizontal_position) = Iterations
    /\ DOMAIN self.phase_drag_forces = Phases
    /\ \A p \in Phases : Len(self.phase_drag_forces[p]) = Iterations

\* a returned run of three or more iterations in which one phase deployed
\* after the first iteration and another never deployed
C11_Witness ==
    /\ Returned
    /\ Iterations >= 3
    /\ \E p \in self.deployed_phases : self.phase_deployment_times[p] > 0
    /\ \E q \in Phases : q \notin self.deployed_phases

----------------------------------------------------------------------------
\* the position of phase p in the configured phase list
ListPosition(p) ==
    CHOOSE k \in DOMAIN self.selected_phases : self.selected_phases[k] = p

\* the phases deployed by the time the forces of iteration i were computed
DeployedBy(i) ==
    {p \in self.deployed_phases : self.phase_deployment_times[p] <= self.time[i]}

\* the first phase, in configured list order, among the phases deployed by
\* iteration i; the first configured phase if there is none
FirstListedDeployed(i) ==
    IF DeployedBy(i) = {} THEN self.selected_phases[1]
    ELSE CHOOSE p \in DeployedBy(i) :
            \A q \in DeployedBy(i) : ListPosition(p) <= ListPosition(q)

\* the phase deployed earliest among the phases deployed by iteration i, the
\* list order deciding between phases deployed in the same iteration; the
\* first configured phase if there is none
EarliestDeployed(i) ==
    IF DeployedBy(i) = {} THEN self.selected_phases[1]
    ELSE CHOOSE p \in DeployedBy(i) :
            \A q \in DeployedBy(i) :
                \/ self.phase_deployment_times[p] < self.phase_deployment_times[q]
                \/ /\ self.phase_deployment_times[p] = self.phase_deployment_times[q]
                   /\ ListPosition(p) <= ListPosition(q)

\* the velocity iteration i started from
StartVelocity(i) ==
    IF i = 1 THEN self.global_params.initial_velocity ELSE self.velocity[i - 1]

\* the velocity iteration i arrives at when the drag of the step decelerates
\* the payload mass of phase p
VelocityDeceleratingMassOf(i, p) ==
    Max(0, StartVelocity(i)
           + Mul(Mul(g, Cos(self.descent_angle))
                   - Div(self.total_drag_force[i],
                         self.phase_params[p].payload_mass),
                 self.dt))

(* C12 as stated: in every step the mass that is decelerated is the payload  *)
(* mass of the first phase, in configured list order, among the phases       *)
(* deployed so far (of the first configured phase if none is deployed), for  *)
(* every list order and every assignment of deployment altitudes.            *)
C12_AsClaimed ==
    \A i \in 1..Samples :
        self.velocity[i] = VelocityDeceleratingMassOf(i, FirstListedDeployed(i))

(* C12, amended: in every step the mass that is decelerated is the payload   *)
(* mass of the phase deployed earliest among the phases deployed so far,     *)
(* the list order deciding only between phases deployed in the same step;    *)
(* it is the payload mass of the first configured phase if none is deployed. *)
C12_MassOfEarliestDeployed ==
    \A i \in 1..Samples :
        self.velocity[i] = VelocityDeceleratingMassOf(i, EarliestDeployed(i))

\* the phase listed second deployed first, the phase listed first deployed
\* later, and a step after that in which the drag slowed a moving payload
C12_Witness ==
    \E i \in 1..Samples :
        /\ FirstListedDeployed(i) # EarliestDeployed(i)
        /\ self.total_drag_force[i] > 0
        /\ self.velocity[i] > 0
        /\ self.velocity[i] # VelocityDeceleratingMassOf(i, FirstListedDeployed(i))

----------------------------------------------------------------------------
\* run() was left by a ZeroDivisionError
Raised == pc = "raised"

(* C13 as stated: no step of run() fails with a division by zero; a zero     *)
(* payload mass, a zero velocity and a zero inflation duration are each met  *)
(* by a guard instead of an exception that propagates out of run().          *)
C13_NoDivisionByZero == ~Raised

----------------------------------------------------------------------------
\* 0.5 * rho * v^2 * Cd * A for the arguments held in self
BaseForce ==
    LET area == Mul(Pi, Mul(self.diameter \div 2, self.diameter \div 2))
        dynamic_pressure ==
            ((calculate_air_density(self.altitude)
                * Mul(self.velocity, self.velocity)) \div RhoScale) \div 2
    IN  Mul(Mul(dynamic_pressure, self.drag_coefficient), area)

\* the time since deployment of the k-th application
SweepTime(k) == (k - 1) * SweepStep

(* C14: for fixed altitude, velocity > 0, diameter, Cd and a reefing factor  *)
(* in [0,1], calculate_drag_force returns reefingFactor x baseForce at time  *)
(* 0 since deployment when the inflation duration is > 0, returns exactly    *)
(* baseForce at every time >= the inflation duration, and does not decrease  *)
(* as the time since deployment grows.                                       *)
C14_DragForceInflates ==
    pc = "drag" =>
      /\ (results # << >> /\ self.inflation_time > 0)
            => results[1] = Mul(self.reefing_factor, BaseForce)
      /\ \A k \in DOMAIN results :
            SweepTime(k) >= self.inflation_time => results[k] = BaseForce
      /\ \A j, k \in DOMAIN results : j <= k => results[j] <= results[k]

\* a sweep that started reefed below the base force, rose strictly during the
\* inflation and has reached the base force
C14_Witness ==
    /\ pc = "drag"
    /\ Len(results) >= 4
    /\ self.reefing_factor > 0
    /\ results[1] = Mul(self.reefing_factor, BaseForce)
    /\ results[1] < results[2]
    /\ results[2] < results[3]
    /\ results[3] < BaseForce
    /\ Last(results) = BaseForce

----------------------------------------------------------------------------
Validated == pc = "validated"

\* every value passes validate_inputs' test of that value on its own: the
\* global values are given and > 0, every selected phase has parameters, all
\* given and >= 0, and its reefing factor is <= 1
ValuesAccepted ==
    /\ \A param \in DOMAIN self.global_params :
          /\ self.global_params[param] # None
          /\ self.global_params[param][1] > 0
    /\ \A p \in Phases :
          /\ p \in DOMAIN self.phase_params
          /\ \A param \in DOMAIN self.phase_params[p] :
                /\ self.phase_params[p][param] # None
                /\ self.phase_params[p][param][1] >= 0
          /\ self.phase_params[p].reefing_factor[1] <= Scale

\* the place of phase p in the typical sequence ACS, Drogue, Pilot, Main
TypicalPlace(p) == CHOOSE k \in DOMAIN phase_order : phase_order[k] = p

InputAltitude(p) == self.phase_params[p].deployment_altitude[1]

(* C15: validate_inputs never returns False because of the order of the      *)
(* deployment altitudes.  When every value is accepted on its own it returns *)
(* True for every ordering; a warning is all it emits, it emits one whenever *)
(* a phase deploys above a phase that precedes it in ACS, Drogue, Pilot,     *)
(* Main, and only when some phase does not deploy below its predecessors.    *)
C15_OrderOnlyWarns ==
    Validated =>
      /\ results.valid = ValuesAccepted
      /\ results.warning =>
            /\ results.valid
            /\ \E p, q \in Phases :
                  /\ TypicalPlace(p) < TypicalPlace(q)
                  /\ InputAltitude(p) <= InputAltitude(q)
      /\ (/\ ValuesAccepted
          /\ \E p, q \in Phases :
                /\ TypicalPlace(p) < TypicalPlace(q)
                /\ InputAltitude(p) < InputAltitude(q))
            => results.warning

\* three phases, Main set to deploy above both ACS and Drogue: accepted, with
\* the warning
C15_Witness ==
    /\ Validated
    /\ Cardinality(Phases) = 3
    /\ InputAltitude("Main") > InputAltitude("ACS")
    /\ InputAltitude("Main") > InputAltitude("Drogue")
    /\ results.valid
    /\ results.warning

----------------------------------------------------------------------------
\* the value of a global parameter, when it is given
GlobalInput(param) == self.global_params[param][1]

\* the bounds of the data model: initial altitude > 0, initial velocity >= 0,
\* time step in (0, 1], descent angle in [0, 90], and for every selected phase
\* diameter > 0, drag coefficient > 0, deployment altitude >= 0, inflation
\* index > 0, payload mass > 0 and reefing factor in [0, 1]
WithinDataModelBounds ==
    /\ \A param \in DOMAIN self.global_params : self.global_params[param] # None
    /\ GlobalInput("initial_altitude") > 0
    /\ GlobalInput("initial_velocity") >= 0
    /\ GlobalInput("time_step") > 0
    /\ GlobalInput("time_step") <= Scale
    /\ GlobalInput("descent_angle") >= 0
    /\ GlobalInput("descent_angle") <= 90
    /\ \A p \in Phases :
          /\ p \in DOMAIN self.phase_params
          /\ \A param \in DOMAIN self.phase_params[p] :
                self.phase_params[p][param] # None
          /\ self.phase_params[p].diameter[1] > 0
          /\ self.phase_params[p].drag_coefficient[1] > 0
          /\ self.phase_params[p].deployment_altitude[1] >= 0
          /\ self.phase_params[p].inflation_index[1] > 0
          /\ self.phase_params[p].payload_mass[1] > 0
          /\ self.phase_params[p].reefing_factor[1] >= 0
          /\ self.phase_params[p].reefing_factor[1] <= Scale

(* C17 as stated: validate_inputs returns True exactly for the inputs within *)
(* the bounds of the data model; in particular it accepts an initial         *)
(* velocity of 0 and a descent angle of 0 and rejects a payload mass of 0.   *)
C17_ValidExactlyWithinBounds ==
    Validated => (results.valid <=> WithinDataModelBounds)

----------------------------------------------------------------------------
\* the phases not yet deployed whose deployment altitude the current altitude
\* has reached
Due ==
    {p \in Phases \ self.deployed_phases :
        DeploymentAltitude(p) >= self.current_altitude}

\* the inflation duration of phase p at the current velocity: 0 at rest,
\* otherwise n * diameter / velocity, at least 0.1 s
InflationDurationNow(p) ==
    IF self.current_velocity <= 0 THEN 0
    ELSE Max(Div(Mul(self.phase_params[p].inflation_index,
                     self.phase_params[p].diameter),
                 self.current_velocity),
             MinInflationTime)

(* C16: in a step at whose start several pending phases have a deployment    *)
(* altitude >= the current altitude, all of them are deployed in that step:  *)
(* they are appended to the active phases in phase-list order, each with the *)
(* current simulation time as deployment time and with the inflation         *)
(* duration computed from the velocity at the start of the step, 0 if that   *)
(* velocity is <= 0 and max(n * diameter / velocity, 0.1) otherwise.         *)
C16_DueDeployedTogether ==
    [][ LoopContinues =>
          LET before == Len(self.active_phases)
              after == Len(self'.active_phases)
          IN  /\ self'.deployed_phases = self.deployed_phases \cup Due
              /\ after = before + Cardinality(Due)
              /\ \A k \in 1..before :
                    self'.active_phases[k] = self.active_phases[k]
              /\ \A k \in (before + 1)..after :
                    /\ self'.active_phases[k].phase \in Due
                    /\ self'.active_phases[k].deployment_time = self.current_time
                    /\ self'.active_phases[k].inflation_time
                         = InflationDurationNow(self'.active_phases[k].phase)
              /\ \A j, k \in (before + 1)..after :
                    j < k => ListPosition(self'.active_phases[j].phase)
                               < ListPosition(self'.active_phases[k].phase)
              /\ \A p \in Due :
                    /\ self'.phase_deployment_times[p] = self.current_time
                    /\ self'.phase_inflation_times[p] = InflationDurationNow(p) ]_vars

\* after the first step, Main and Drogue were deployed in one step while the
\* payload was moving, Main listed first and set to deploy below Drogue, one
\* of them inflating for the 0.1 s minimum and the other for longer
C16_Witness ==
    /\ Len(self.active_phases) = 2
    /\ self.active_phases[1].phase = "Main"
    /\ self.active_phases[2].phase = "Drogue"
    /\ DeploymentAltitude("Main") < DeploymentAltitude("Drogue")
    /\ self.active_phases[1].deployment_time > 0
    /\ self.active_phases[2].deployment_time = self.active_phases[1].deployment_time
    /\ self.active_phases[1].inflation_time > MinInflationTime
    /\ self.active_phases[2].inflation_time = MinInflationTime

----------------------------------------------------------------------------
\* the drag of phase p computed from the state iteration i started from, at
\* the clock value of iteration i
DragBeforeUpdate(p, i) ==
    IF p \in DeployedBy(i)
    THEN calculate_drag_force(
             StartAltitude(i), StartVelocity(i),
             self.phase_params[p].diameter,
             self.phase_params[p].drag_coefficient,
             self.phase_params[p].reefing_factor,
             self.time[i] - self.phase_deployment_times[p],
             self.phase_inflation_times[p])
    ELSE 0

\* the sum over the selected phases from list position k on
RECURSIVE TotalDragBeforeUpdate(_, _)
TotalDragBeforeUpdate(i, k) ==
    IF k > Len(self.selected_phases) THEN 0
    ELSE DragBeforeUpdate(self.selected_phases[k], i)
           + TotalDragBeforeUpdate(i, k + 1)

(* C18: after N >= 1 iterations, time[i] = i * dt for the samples i = 0 ..   *)
(* N-1 and the clock stands at N * dt; the altitude, velocity and            *)
(* horizontal position of a sample are the values after that step's update,  *)
(* its total drag is the drag computed from the state before that update;    *)
(* the reported total_flight_time is (N-1) * dt, one time step less than the *)
(* clock value at which the loop exits.                                      *)
C18_SamplesLagTheClock ==
    /\ \A i \in 1..Samples : self.time[i] = (i - 1) * self.dt
    /\ self.current_time = Samples * self.dt
    /\ Samples >= 1 =>
          /\ self.altitude[Samples] = Max(0, self.current_altitude)
          /\ self.velocity[Samples] = self.current_velocity
          /\ self.horizontal_position[Samples] = self.current_horizontal_pos
    /\ \A i \in 1..Samples :
          /\ self.total_drag_force[i] = TotalDragBeforeUpdate(i, 1)
          /\ self.altitude[i]
               = Max(0, StartAltitude(i) - Mul(self.velocity[i], self.dt))
          /\ self.horizontal_position[i]
               = (IF i = 1 THEN 0 ELSE self.horizontal_position[i - 1])
                 + Mul(Mul(self.velocity[i], Sin(self.descent_angle)), self.dt)
    /\ (Returned /\ Samples >= 1) =>
          /\ results.total_flight_time = (Samples - 1) * self.dt
          /\ results.total_flight_time = self.current_time - self.dt

\* a returned run of three or more iterations along an inclined path, in
\* which the drag of a step differs from what the updated state would give
C18_Witness ==
    /\ Returned
    /\ Samples >= 3
    /\ self.descent_angle = 60
    /\ results.total_flight_time = (Samples - 1) * self.dt
    /\ \E i \in 2..Samples :
          /\ self.total_drag_force[i] > 0
          /\ self.velocity[i] # StartVelocity(i)
          /\ self.horizontal_position[i] > self.horizontal_position[i - 1]

====
